---- MODULE Spec2Model ----
(***************************************************************************)
(* Model of the tool-call policy engine of packages/core/src/policy:       *)
(* PolicyEngine (constructor, check, addRule, removeRulesForTool,          *)
(* getRules, ruleMatches, applyNonInteractiveMode) and its canonical       *)
(* serializer stableStringify.                                             *)
(*                                                                         *)
(* JavaScript values are tagged records; objects and arrays live in a heap *)
(* (node id -> node) and are referred to by identity, so that reference    *)
(* cycles and shared references can be expressed.  Strings are TLA+        *)
(* strings, so a serialization is compared byte for byte.                  *)
(***************************************************************************)
EXTENDS Integers, Sequences, FiniteSets, TLC

VARIABLES
  engines,   \* nonInteractive flag -> engine state [rules, defaultDecision, nonInteractive]
  op,        \* the engine operation performed last
  call,      \* the toolCall of the last check
  result,    \* nonInteractive flag -> decision returned by the last check
  prev,      \* the engines as they were before the last operation
  arg,       \* the argument of the last operation: the config of the constructor,
             \* the rule of addRule, the name of removeRulesForTool
  inserted,  \* the rules the engine holds, in the order they were handed to it
  frames,    \* flow -> the engine method the flow is executing, and where in it
  heap,      \* serializer input: node id -> object or array node
  out,       \* the string stableStringify returned
  thrown,    \* the error stableStringify threw, "none" if it returned
  phase      \* "build" while the caller builds the value, "done" after stableStringify

vars == <<engines, op, call, result, prev, arg, inserted, frames, heap, out, thrown, phase>>
engineVars == <<engines, op, call, result, prev, arg, inserted, frames>>
serVars == <<heap, out, thrown, phase>>

(***************************************************************************)
(* Bounds of the model.                                                    *)
(***************************************************************************)
MaxRules == 2        \* rules held by an engine
MaxConfigRules == 2  \* rules passed to the constructor
MaxNodes == 2        \* objects and arrays of a serialized value
MaxSlots == 3        \* properties and array elements of a serialized value, in total

(***************************************************************************)
(* JavaScript values.                                                      *)
(***************************************************************************)
Undefined == [t |-> "undefined"]
Null == [t |-> "null"]
Func == [t |-> "function"]
NaN == [t |-> "NaN"]
Str(s) == [t |-> "string", s |-> s]
Num(n) == [t |-> "number", n |-> n]
Bool(b) == [t |-> "boolean", b |-> b]
Ref(id) == [t |-> "ref", id |-> id]

\* ToBoolean: undefined, null, NaN, 0, "" and false are falsy; every object,
\* array and function is truthy.
Truthy(v) ==
  CASE v.t = "undefined" -> FALSE
    [] v.t = "null" -> FALSE
    [] v.t = "NaN" -> FALSE
    [] v.t = "number" -> v.n # 0
    [] v.t = "string" -> v.s # ""
    [] v.t = "boolean" -> v.b
    [] OTHER -> TRUE

\* a ?? b
Coalesce(a, b) == IF a.t \in {"undefined", "null"} THEN b ELSE a

(***************************************************************************)
(* Strings: code units in ascending order, for the default Array.sort.     *)
(***************************************************************************)
Alphabet == "\"-0123456789:ABCDEFGHIJKLMNOPQRSTUVWXYZ[\\]_abcdefghijklmnopqrstuvwxyz{}"

CharAt(s, i) == SubSeq(s, i, i)

CodeUnit(c) == CHOOSE i \in 1..Len(Alphabet) : CharAt(Alphabet, i) = c

RECURSIVE StrLess(_, _)
StrLess(a, b) ==
  IF Len(b) = 0 THEN FALSE
  ELSE IF Len(a) = 0 THEN TRUE
  ELSE IF CharAt(a, 1) # CharAt(b, 1)
       THEN CodeUnit(CharAt(a, 1)) < CodeUnit(CharAt(b, 1))
       ELSE StrLess(SubSeq(a, 2, Len(a)), SubSeq(b, 2, Len(b)))

RECURSIVE Join(_, _)
Join(items, sep) ==
  IF Len(items) = 0 THEN ""
  ELSE IF Len(items) = 1 THEN items[1]
  ELSE items[1] \o sep \o Join(Tail(items), sep)

\* true iff needle occurs in s at a position >= from (1-based)
RECURSIVE IndexOf(_, _, _)
IndexOf(s, needle, from) ==
  IF from + Len(needle) - 1 > Len(s) THEN 0
  ELSE IF SubSeq(s, from, from + Len(needle) - 1) = needle THEN from
  ELSE IndexOf(s, needle, from + 1)

(***************************************************************************)
(* JSON.stringify of a primitive.                                          *)
(***************************************************************************)
RECURSIVE QuoteChars(_)
QuoteChars(s) ==
  IF Len(s) = 0 THEN ""
  ELSE LET c == CharAt(s, 1)
           e == IF c = "\"" THEN "\\\""
                ELSE IF c = "\\" THEN "\\\\"
                ELSE c
       IN e \o QuoteChars(SubSeq(s, 2, Len(s)))

JSONQuote(s) == "\"" \o QuoteChars(s) \o "\""

JSONStringify(v) ==
  CASE v.t = "string" -> JSONQuote(v.s)
    [] v.t = "number" -> ToString(v.n)
    [] v.t = "boolean" -> (IF v.b THEN "true" ELSE "false")
    [] v.t = "NaN" -> "null"
    [] v.t = "null" -> "null"

(***************************************************************************)
(* Heap nodes.  An object keeps its own enumerable properties as a         *)
(* sequence of <<key, value>> pairs in insertion order; an array keeps its *)
(* elements.                                                               *)
(***************************************************************************)
ObjNode(props) == [kind |-> "object", props |-> props]
ArrNode(items) == [kind |-> "array", items |-> items]

\* Object.keys(o): the keys in insertion order
ObjectKeys(node) == [i \in 1..Len(node.props) |-> node.props[i][1]]

\* o[key]
GetProp(node, key) ==
  IF \E i \in 1..Len(node.props) : node.props[i][1] = key
  THEN node.props[CHOOSE i \in 1..Len(node.props) : node.props[i][1] = key][2]
  ELSE Undefined

\* Array.prototype.sort() without comparator: ascending by code units
RECURSIVE InsertKey(_, _)
InsertKey(sorted, k) ==
  IF Len(sorted) = 0 THEN <<k>>
  ELSE IF StrLess(k, Head(sorted)) THEN <<k>> \o sorted
  ELSE <<Head(sorted)>> \o InsertKey(Tail(sorted), k)

\* mutant of SortKeys: the keys are left in insertion order
SortKeysNone(keys) == keys

RECURSIVE SortKeys(_)
SortKeys(keys) ==
  IF Len(keys) = 0 THEN <<>>
  ELSE InsertKey(SortKeys(SubSeq(keys, 1, Len(keys) - 1)), keys[Len(keys)])

\* mutant of SelectSeqBy: nothing is filtered out
SelectSeqByAll(s, keep) == s

\* Array.prototype.filter
RECURSIVE SelectSeqBy(_, _)
SelectSeqBy(s, keep) ==
  IF Len(s) = 0 THEN <<>>
  ELSE (IF s[1] \in keep THEN <<s[1]>> ELSE <<>>) \o SelectSeqBy(Tail(s), keep)

(***************************************************************************)
(* stableStringify: the inner stringify(currentObj, ancestors).            *)
(***************************************************************************)
\* mutant of stringify: the marker of a circular reference is not quoted
RECURSIVE stringifyBareMarker(_, _, _)
stringifyBareMarker(h, currentObj, ancestors) ==
  IF currentObj.t \in {"undefined", "null", "function"} THEN "null"
  ELSE IF currentObj.t # "ref" THEN JSONStringify(currentObj)
  ELSE IF currentObj.id \in ancestors THEN "[Circular]"
  ELSE
    LET newAncestors == ancestors \cup {currentObj.id}
        node == h[currentObj.id]
    IN IF node.kind = "array"
       THEN LET items == [i \in 1..Len(node.items) |->
                            IF node.items[i].t \in {"undefined", "function"}
                            THEN "null"
                            ELSE stringifyBareMarker(h, node.items[i], newAncestors)]
            IN "[" \o Join(items, ",") \o "]"
       ELSE LET sortedKeys == SortKeys(ObjectKeys(node))
                kept == SelectSeqBy(sortedKeys,
                          {k \in {sortedKeys[i] : i \in 1..Len(sortedKeys)} :
                             GetProp(node, k).t \notin {"undefined", "function"}})
                pairs == [i \in 1..Len(kept) |->
                            JSONQuote(kept[i]) \o ":" \o
                            stringifyBareMarker(h, GetProp(node, kept[i]), newAncestors)]
            IN "{" \o Join(pairs, ",") \o "}"

\* mutant of stringify: one set of visited objects shared by all branches
\* (newAncestors is the set passed in, not a copy of it)
RECURSIVE stringifyVisited(_, _, _)
RECURSIVE stringifyVisitedAll(_, _, _)
stringifyVisited(h, currentObj, visited) ==
  IF currentObj.t \in {"undefined", "null", "function"}
  THEN [str |-> "null", visited |-> visited]
  ELSE IF currentObj.t # "ref"
  THEN [str |-> JSONStringify(currentObj), visited |-> visited]
  ELSE IF currentObj.id \in visited
  THEN [str |-> "\"[Circular]\"", visited |-> visited]
  ELSE
    LET node == h[currentObj.id]
        now == visited \cup {currentObj.id}
    IN IF node.kind = "array"
       THEN LET r == stringifyVisitedAll(h, node.items, now)
            IN [str |-> "[" \o Join(r.strs, ",") \o "]", visited |-> r.visited]
       ELSE LET sortedKeys == SortKeys(ObjectKeys(node))
                kept == SelectSeqBy(sortedKeys,
                          {k \in {sortedKeys[i] : i \in 1..Len(sortedKeys)} :
                             GetProp(node, k).t \notin {"undefined", "function"}})
                r == stringifyVisitedAll(h, [i \in 1..Len(kept) |-> GetProp(node, kept[i])], now)
            IN [str |-> "{" \o Join([i \in 1..Len(kept) |->
                                       JSONQuote(kept[i]) \o ":" \o r.strs[i]], ",") \o "}",
                visited |-> r.visited]

stringifyVisitedAll(h, items, visited) ==
  IF Len(items) = 0 THEN [strs |-> <<>>, visited |-> visited]
  ELSE LET first == stringifyVisited(h, items[1], visited)
           rest == stringifyVisitedAll(h, Tail(items), first.visited)
       IN [strs |-> <<first.str>> \o rest.strs, visited |-> rest.visited]

stringifySharedSet(h, currentObj, ancestors) ==
  stringifyVisited(h, currentObj, ancestors).str

RECURSIVE stringify(_, _, _)
stringify(h, currentObj, ancestors) ==
  IF currentObj.t = "undefined" THEN "null"
  ELSE IF currentObj.t = "null" THEN "null"
  ELSE IF currentObj.t = "function" THEN "null"
  ELSE IF currentObj.t # "ref" THEN JSONStringify(currentObj)
  ELSE IF currentObj.id \in ancestors THEN "\"[Circular]\""
  ELSE
    LET newAncestors == ancestors \cup {currentObj.id}
        node == h[currentObj.id]
    IN IF node.kind = "array"
       THEN LET items == [i \in 1..Len(node.items) |->
                            IF node.items[i].t \in {"undefined", "function"}
                            THEN "null"
                            ELSE stringify(h, node.items[i], newAncestors)]
            IN "[" \o Join(items, ",") \o "]"
       ELSE LET sortedKeys == SortKeys(ObjectKeys(node))
                kept == SelectSeqBy(sortedKeys,
                          {k \in {sortedKeys[i] : i \in 1..Len(sortedKeys)} :
                             GetProp(node, k).t \notin {"undefined", "function"}})
                pairs == [i \in 1..Len(kept) |->
                            JSONQuote(kept[i]) \o ":" \o
                            stringify(h, GetProp(node, kept[i]), newAncestors)]
            IN "{" \o Join(pairs, ",") \o "}"

stableStringify(h, obj) == stringify(h, obj, {})

(***************************************************************************)
(* stableStringify as an evaluation that can fail.  A function value may   *)
(* carry what it does when called as a toJSON hook: return a value or      *)
(* throw; a function without either returns undefined.  An evaluation      *)
(* ends in an outcome: the string returned, or the error thrown.  The      *)
(* call stack holds StackLimit nested stringify calls, more than any path  *)
(* through distinct objects of the heap needs; one call more throws a      *)
(* RangeError.                                                             *)
(***************************************************************************)
Hook(ret) == [t |-> "function", returns |-> ret]
HookThrows == [t |-> "function", throws |-> TRUE]

\* mutant of CallHook: a throwing function counts as one returning undefined
CallHookSwallow(f) ==
  IF "returns" \in DOMAIN f THEN [threw |-> FALSE, value |-> f.returns]
  ELSE [threw |-> FALSE, value |-> Undefined]

\* f(): [threw, value]
CallHook(f) ==
  IF "throws" \in DOMAIN f THEN [threw |-> TRUE, value |-> Undefined]
  ELSE IF "returns" \in DOMAIN f THEN [threw |-> FALSE, value |-> f.returns]
  ELSE [threw |-> FALSE, value |-> Undefined]

StackLimit == MaxNodes + 1

Return(s) == [error |-> "none", str |-> s]
Throw(e) == [error |-> e, str |-> ""]

\* the outcome of evaluating a sequence of sub-results in order and joining
\* them: the first error, if any, ends the evaluation
JoinOutcomes(outs, open, close) ==
  IF \E i \in 1..Len(outs) : outs[i].error # "none"
  THEN Throw(outs[CHOOSE i \in 1..Len(outs) :
                    /\ outs[i].error # "none"
                    /\ \A j \in 1..(i - 1) : outs[j].error = "none"].error)
  ELSE Return(open \o Join([i \in 1..Len(outs) |-> outs[i].str], ",") \o close)

\* mutant of HasAncestor: the ancestor chain is not consulted
HasAncestorNever(ancestors, id) == FALSE

\* ancestors.has(currentObj)
HasAncestor(ancestors, id) == id \in ancestors

\* mutant of Caught: the error of the toJSON branch is rethrown
CaughtNever(outcome) == FALSE

\* try { ... } catch { }: whether the outcome of the try block is an error,
\* which the catch clause swallows
Caught(outcome) == outcome.error # "none"

\* stringify(currentObj, ancestors) at call depth `depth`; toJSON tells
\* whether the serializer is the one that calls toJSON hooks
RECURSIVE stringifyOutcome(_, _, _, _, _)
stringifyOutcome(h, currentObj, ancestors, depth, toJSON) ==
  IF depth > StackLimit THEN Throw("RangeError")
  ELSE IF currentObj.t \in {"undefined", "null", "function"} THEN Return("null")
  ELSE IF currentObj.t # "ref" THEN Return(JSONStringify(currentObj))
  ELSE IF HasAncestor(ancestors, currentObj.id) THEN Return("\"[Circular]\"")
  ELSE
    LET newAncestors == ancestors \cup {currentObj.id}
        node == h[currentObj.id]
        plain ==
          IF node.kind = "array"
          THEN JoinOutcomes(
                 [i \in 1..Len(node.items) |->
                    IF node.items[i].t \in {"undefined", "function"}
                    THEN Return("null")
                    ELSE stringifyOutcome(h, node.items[i], newAncestors, depth + 1, toJSON)],
                 "[", "]")
          ELSE LET sortedKeys == SortKeys(ObjectKeys(node))
                   kept == SelectSeqBy(sortedKeys,
                             {k \in {sortedKeys[i] : i \in 1..Len(sortedKeys)} :
                                GetProp(node, k).t \notin {"undefined", "function"}})
                   values == [i \in 1..Len(kept) |->
                                stringifyOutcome(h, GetProp(node, kept[i]),
                                                 newAncestors, depth + 1, toJSON)]
               IN JoinOutcomes(
                    [i \in 1..Len(kept) |->
                       IF values[i].error # "none" THEN values[i]
                       ELSE Return(JSONQuote(kept[i]) \o ":" \o values[i].str)],
                    "{", "}")
        hook == IF node.kind = "object" THEN GetProp(node, "toJSON") ELSE Undefined
    IN IF toJSON /\ hook.t = "function"
       THEN LET called == CallHook(hook)
                tried == IF called.threw THEN Throw("Error")
                         ELSE stringifyOutcome(h, called.value, newAncestors,
                                               depth + 1, toJSON)
            IN IF Caught(tried) THEN plain ELSE tried
       ELSE plain

\* stableStringify(obj) of policy-engine.ts (toJSON = FALSE) and of the
\* variant that calls toJSON hooks (toJSON = TRUE)
stableStringifyOutcome(h, obj, toJSON) == stringifyOutcome(h, obj, {}, 1, toJSON)

(***************************************************************************)
(* Regular expressions.  A pattern is modelled by the literal it searches  *)
(* for (needle; the empty needle is /(?:)/, which matches every string),   *)
(* its global flag and its lastIndex, which RegExp.prototype.test reads    *)
(* and writes when the flag is set.                                        *)
(***************************************************************************)
RegExp(needle, global) ==
  [t |-> "regexp", needle |-> needle, global |-> global, lastIndex |-> 0]

\* whether the pattern occurs anywhere in s
PatternOccurs(re, s) == IndexOf(s, re.needle, 1) # 0

\* re.test(s): [matched, re], re being the object after the call
RegExpTest(re, s) ==
  IF ~re.global
  THEN [matched |-> IndexOf(s, re.needle, 1) # 0, re |-> re]
  ELSE IF re.lastIndex > Len(s)
  THEN [matched |-> FALSE, re |-> [re EXCEPT !.lastIndex = 0]]
  ELSE LET p == IndexOf(s, re.needle, re.lastIndex + 1)
       IN IF p # 0
          THEN [matched |-> TRUE,
                re |-> [re EXCEPT !.lastIndex = p - 1 + Len(re.needle)]]
          ELSE [matched |-> FALSE, re |-> [re EXCEPT !.lastIndex = 0]]

(***************************************************************************)
(* PolicyEngine.                                                           *)
(***************************************************************************)
ALLOW == "ALLOW"
DENY == "DENY"
ASK_USER == "ASK_USER"
PolicyDecision == {ALLOW, DENY, ASK_USER}

PolicyRule(toolName, argsPattern, decision, priority) ==
  [toolName |-> toolName, argsPattern |-> argsPattern,
   decision |-> decision, priority |-> priority]

FunctionCall(name, args, h) == [name |-> name, args |-> args, heap |-> h]

\* mutant of PriorityOf: a rule without priority ranks below every other
PriorityOfUnsetLow(rule) ==
  IF rule.priority.t = "undefined" THEN -9 ELSE rule.priority.n

\* rule.priority ?? 0
PriorityOf(rule) == Coalesce(rule.priority, Num(0)).n

\* the comparator (a, b) => (b.priority ?? 0) - (a.priority ?? 0)
ComparePriority(a, b) == PriorityOf(b) - PriorityOf(a)

\* mutant of InsertRule: an element goes in front of its equals
RECURSIVE InsertRuleUnstable(_, _)
InsertRuleUnstable(sorted, r) ==
  IF Len(sorted) = 0 THEN <<r>>
  ELSE IF ComparePriority(Head(sorted), r) >= 0 THEN <<r>> \o sorted
  ELSE <<Head(sorted)>> \o InsertRuleUnstable(Tail(sorted), r)

\* mutant of InsertRule: the element stays where push put it, at the end
InsertRuleLast(sorted, r) == Append(sorted, r)

\* Array.prototype.sort(comparator), a stable sort: each element goes in
\* front of the first one that the comparator orders after it
RECURSIVE InsertRule(_, _)
InsertRule(sorted, r) ==
  IF Len(sorted) = 0 THEN <<r>>
  ELSE IF ComparePriority(Head(sorted), r) > 0 THEN <<r>> \o sorted
  ELSE <<Head(sorted)>> \o InsertRule(Tail(sorted), r)

\* mutant of SortRules: the list is left in insertion order
SortRulesNone(rs) == rs

RECURSIVE SortRules(_)
SortRules(rs) ==
  IF Len(rs) = 0 THEN <<>>
  ELSE InsertRule(SortRules(SubSeq(rs, 1, Len(rs) - 1)), rs[Len(rs)])

\* mutant of Constructor: the default decision of an engine given none is DENY
ConstructorDefaultDeny(config) ==
  [rules |-> SortRules(IF "rules" \in DOMAIN config THEN config.rules ELSE <<>>),
   defaultDecision |->
     IF "defaultDecision" \in DOMAIN config THEN config.defaultDecision ELSE DENY,
   nonInteractive |->
     IF "nonInteractive" \in DOMAIN config THEN config.nonInteractive ELSE FALSE]

\* new PolicyEngine(config); a field left out of config is undefined
Constructor(config) ==
  [rules |-> SortRules(IF "rules" \in DOMAIN config THEN config.rules ELSE <<>>),
   defaultDecision |->
     IF "defaultDecision" \in DOMAIN config THEN config.defaultDecision ELSE ASK_USER,
   nonInteractive |->
     IF "nonInteractive" \in DOMAIN config THEN config.nonInteractive ELSE FALSE]

\* mutants of applyNonInteractiveMode: no downgrade; a downgrade to ALLOW
applyNonInteractiveModeKeep(e, decision) == decision

applyNonInteractiveModeOpen(e, decision) ==
  IF e.nonInteractive /\ decision = ASK_USER THEN ALLOW ELSE decision

applyNonInteractiveMode(e, decision) ==
  IF e.nonInteractive /\ decision = ASK_USER THEN DENY ELSE decision

\* mutant of ruleMatches: the pattern is tested without the test for args
ruleMatchesNoArgsTest(rule, toolCall) ==
  IF Truthy(rule.toolName) /\ toolCall.name # rule.toolName
  THEN [matches |-> FALSE, rule |-> rule]
  ELSE IF Truthy(rule.argsPattern)
  THEN LET argsString == stableStringify(toolCall.heap, toolCall.args)
           t == RegExpTest(rule.argsPattern, argsString)
       IN [matches |-> t.matched, rule |-> [rule EXCEPT !.argsPattern = t.re]]
  ELSE [matches |-> TRUE, rule |-> rule]

\* ruleMatches(rule, toolCall): [matches, rule], rule being the rule after
\* the call (its pattern object may have been advanced by test)
ruleMatches(rule, toolCall) ==
  IF Truthy(rule.toolName) /\ toolCall.name # rule.toolName
  THEN [matches |-> FALSE, rule |-> rule]
  ELSE IF Truthy(rule.argsPattern)
  THEN IF ~Truthy(toolCall.args)
       THEN [matches |-> FALSE, rule |-> rule]
       ELSE LET argsString == stableStringify(toolCall.heap, toolCall.args)
                t == RegExpTest(rule.argsPattern, argsString)
            IN [matches |-> t.matched, rule |-> [rule EXCEPT !.argsPattern = t.re]]
  ELSE [matches |-> TRUE, rule |-> rule]

\* the for loop of check, from rule i on
RECURSIVE checkFrom(_, _, _, _)
checkFrom(e, rs, toolCall, i) ==
  IF i > Len(rs)
  THEN [decision |-> applyNonInteractiveMode(e, e.defaultDecision), rules |-> rs]
  ELSE LET m == ruleMatches(rs[i], toolCall)
           after == [rs EXCEPT ![i] = m.rule]
       IN IF m.matches
          THEN [decision |-> applyNonInteractiveMode(e, rs[i].decision), rules |-> after]
          ELSE checkFrom(e, after, toolCall, i + 1)

\* mutant of check: the scan starts at the second rule
checkSkipFirst(e, toolCall) == checkFrom(e, e.rules, toolCall, 2)

\* check(toolCall): [decision, rules], rules being this.rules after the call
check(e, toolCall) == checkFrom(e, e.rules, toolCall, 1)

\* mutant of addRule: a rule equal to one already held is not added
addRuleUnique(e, rule) ==
  IF \E i \in 1..Len(e.rules) : e.rules[i] = rule
  THEN e
  ELSE [e EXCEPT !.rules = SortRules(Append(e.rules, rule))]

\* mutant of addRule: the rule is pushed and the list is not sorted again
addRuleAppend(e, rule) == [e EXCEPT !.rules = Append(e.rules, rule)]

\* mutant of addRule: the rule is put in front of the list before the sort
addRuleFirst(e, rule) == [e EXCEPT !.rules = SortRules(<<rule>> \o e.rules)]

addRule(e, rule) == [e EXCEPT !.rules = SortRules(Append(e.rules, rule))]

\* mutant of removeFrom: the loop ends at the first rule it removes
RECURSIVE removeFromFirstOnly(_, _, _)
removeFromFirstOnly(rs, toolName, i) ==
  IF i < 1 THEN rs
  ELSE IF rs[i].toolName = toolName
  THEN SubSeq(rs, 1, i - 1) \o SubSeq(rs, i + 1, Len(rs))
  ELSE removeFromFirstOnly(rs, toolName, i - 1)

\* the backward loop of removeRulesForTool, from index i down
RECURSIVE removeFrom(_, _, _)
removeFrom(rs, toolName, i) ==
  IF i < 1 THEN rs
  ELSE IF rs[i].toolName = toolName
  THEN removeFrom(SubSeq(rs, 1, i - 1) \o SubSeq(rs, i + 1, Len(rs)), toolName, i - 1)
  ELSE removeFrom(rs, toolName, i - 1)

\* mutant of removeRulesForTool: a rule without toolName counts as a rule
\* for every tool and is removed as well
removeRulesForToolLoose(e, toolName) ==
  [e EXCEPT !.rules =
     SelectSeq(e.rules, LAMBDA r : Truthy(r.toolName) /\ r.toolName # toolName)]

\* mutant of removeRulesForTool: only the last rule of the list is looked at
removeRulesForToolPop(e, toolName) ==
  IF Len(e.rules) > 0 /\ e.rules[Len(e.rules)].toolName = toolName
  THEN [e EXCEPT !.rules = SubSeq(e.rules, 1, Len(e.rules) - 1)]
  ELSE e

removeRulesForTool(e, toolName) ==
  [e EXCEPT !.rules = removeFrom(e.rules, toolName, Len(e.rules))]

getRules(e) == e.rules

(***************************************************************************)
(* Inputs.                                                                 *)
(***************************************************************************)
\* rules the host hands to the engine (config.rules and addRule)
RulePool ==
  { PolicyRule(Str("shell"), Undefined, ALLOW, Undefined),
    PolicyRule(Str("shell"), RegExp("rm", FALSE), DENY, Num(5)),
    PolicyRule(Undefined, Undefined, DENY, Num(0)),
    PolicyRule(Str("edit"), Undefined, ASK_USER, Num(5)),
    PolicyRule(Str(""), Undefined, ALLOW, Num(5)),
    PolicyRule(Undefined, RegExp("rm", TRUE), ASK_USER, Undefined),
    PolicyRule(Str("shell"), Undefined, DENY, Num(-1)),
    PolicyRule(Str("shell"), RegExp("", FALSE), ALLOW, Num(5)) }

ToolNames == {Str("shell"), Str("edit"), Str("")}

\* args of a call, each with the heap its objects live in
CommandArgs(s) == [args |-> Ref(1), heap |-> <<ObjNode(<< <<"command", Str(s)>> >>)>>]
NoHeap == <<>>
ArgsPool ==
  { [args |-> Undefined, heap |-> NoHeap],
    CommandArgs("rm"),
    CommandArgs("ls"),
    [args |-> Ref(1), heap |-> <<ObjNode(<<>>)>>],
    [args |-> Ref(1), heap |-> <<ArrNode(<<Str("rm")>>)>>],
    [args |-> Str("rm"), heap |-> NoHeap],
    [args |-> Str(""), heap |-> NoHeap] }

\* the calls checked: every args value for one tool, and a second tool
Calls ==
  {FunctionCall(Str("shell"), a.args, a.heap) : a \in ArgsPool}
  \cup {FunctionCall(Str("edit"), a.args, a.heap) :
          a \in {[args |-> Undefined, heap |-> NoHeap], CommandArgs("rm")}}

NoCall == FunctionCall(Undefined, Undefined, NoHeap)
NoResult == [ni \in BOOLEAN |-> "NONE"]
NoArg == Undefined

RuleSeqs(n) == UNION {[1..k -> RulePool] : k \in 0..n}

EmptyConfig == [f \in {} |-> Undefined]

\* the logical flows of the host that call the engine
Flows == {1, 2}

\* a flow that is not inside an engine method
NoFrame == [pc |-> "idle", input |-> Undefined, i |-> 0]
NoFrames == [f \in Flows |-> NoFrame]

\* the two engines built from one configuration, without and with nonInteractive
EnginesOf(cfg) ==
  [ni \in BOOLEAN |->
     Constructor(IF ni THEN cfg @@ [nonInteractive |-> TRUE] ELSE cfg)]

(***************************************************************************)
(* The engine: construction and its operations, performed on an            *)
(* interactive and a non-interactive engine side by side.                  *)
(***************************************************************************)
SerIdle ==
  /\ heap = <<ObjNode(<<>>)>>
  /\ out = ""
  /\ thrown = "none"
  /\ phase = "idle"

Init ==
  /\ \E withRules \in BOOLEAN, rs \in RuleSeqs(MaxConfigRules),
        withDefault \in BOOLEAN, d \in PolicyDecision :
       /\ withRules \/ rs = <<>>
       /\ withDefault \/ d = ASK_USER
       /\ arg = (IF withRules THEN [rules |-> rs] ELSE EmptyConfig)
                   @@ (IF withDefault THEN [defaultDecision |-> d] ELSE EmptyConfig)
       /\ engines = EnginesOf(arg)
       /\ inserted = rs
  /\ op = "init"
  /\ call = NoCall
  /\ result = NoResult
  /\ prev = engines
  /\ frames = NoFrames
  /\ SerIdle

Check ==
  /\ \E c \in Calls :
       LET r == [ni \in BOOLEAN |-> check(engines[ni], c)]
       IN /\ call' = c
          /\ result' = [ni \in BOOLEAN |-> r[ni].decision]
          /\ engines' = [ni \in BOOLEAN |-> [engines[ni] EXCEPT !.rules = r[ni].rules]]
  /\ op' = "check"
  /\ prev' = engines
  /\ arg' = NoArg
  /\ UNCHANGED <<inserted, frames, serVars>>

AddRule ==
  /\ \A ni \in BOOLEAN : Len(engines[ni].rules) < MaxRules
  /\ \E r \in RulePool :
       /\ engines' = [ni \in BOOLEAN |-> addRule(engines[ni], r)]
       /\ arg' = r
       /\ inserted' = Append(inserted, r)
  /\ op' = "addRule"
  /\ call' = NoCall
  /\ result' = NoResult
  /\ prev' = engines
  /\ UNCHANGED <<frames, serVars>>

RemoveRulesForTool ==
  /\ \E t \in ToolNames :
       /\ engines' = [ni \in BOOLEAN |-> removeRulesForTool(engines[ni], t)]
       /\ arg' = t
       /\ inserted' = SelectSeq(inserted, LAMBDA r : r.toolName # t)
  /\ op' = "removeRulesForTool"
  /\ call' = NoCall
  /\ result' = NoResult
  /\ prev' = engines
  /\ UNCHANGED <<frames, serVars>>

GetRules ==
  /\ op' = "getRules"
  /\ call' = NoCall
  /\ result' = NoResult
  /\ prev' = engines
  /\ arg' = NoArg
  /\ UNCHANGED <<engines, inserted, frames, serVars>>

Next == Check \/ AddRule \/ RemoveRulesForTool \/ GetRules

Spec == Init /\ [][Next]_vars

(***************************************************************************)
(* The engine and a caller that edits the array getRules() returns.        *)
(* getRules returns this.rules itself, and this.rules is the same array    *)
(* object for the life of the engine (it is sorted, pushed to and spliced  *)
(* in place), so what the caller does to the array it holds is done to     *)
(* the rule list of the engine.                                            *)
(***************************************************************************)
RECURSIVE Reverse(_)
Reverse(rs) == IF Len(rs) = 0 THEN <<>> ELSE Append(Reverse(Tail(rs)), Head(rs))

\* what a caller can do to an array: push, pop, reverse, assign an element
ArrayEdits(rs) ==
  (IF Len(rs) < MaxRules THEN {Append(rs, r) : r \in RulePool} ELSE {})
  \cup (IF Len(rs) > 0 THEN {SubSeq(rs, 1, Len(rs) - 1), Reverse(rs)} ELSE {})
  \cup {[rs EXCEPT ![i] = r] : i \in 1..Len(rs), r \in RulePool}

\* the caller calls getRules() and edits the array returned (the callers
\* of both engines alike); inserted follows the rules now held
MutateView ==
  /\ \E edited \in ArrayEdits(getRules(engines[FALSE])) :
       /\ engines' = [ni \in BOOLEAN |-> [engines[ni] EXCEPT !.rules = edited]]
       /\ inserted' = edited
  /\ op' = "mutateView"
  /\ call' = NoCall
  /\ result' = NoResult
  /\ prev' = engines
  /\ arg' = NoArg
  /\ UNCHANGED <<frames, serVars>>

ViewNext == Next \/ MutateView

SpecView == Init /\ [][ViewNext]_vars

(***************************************************************************)
(* The engine and a caller that keeps the array it passed as config.rules. *)
(* Array.prototype.sort sorts in place and returns the array it was called *)
(* on, so this.rules is the array the caller passed: what the caller does  *)
(* to its array afterwards is done to the rule list of the engine.         *)
(***************************************************************************)
\* new PolicyEngine({rules, defaultDecision?}): config.rules is given
ConfigInit ==
  /\ \E rs \in RuleSeqs(MaxConfigRules), withDefault \in BOOLEAN, d \in PolicyDecision :
       /\ withDefault \/ d = ASK_USER
       /\ arg = [rules |-> rs]
                   @@ (IF withDefault THEN [defaultDecision |-> d] ELSE EmptyConfig)
       /\ engines = EnginesOf(arg)
       /\ inserted = rs
  /\ op = "init"
  /\ call = NoCall
  /\ result = NoResult
  /\ prev = engines
  /\ frames = NoFrames
  /\ SerIdle

\* the caller edits the array it passed as config.rules (the callers of
\* both engines alike); inserted follows the rules now held
MutateConfig ==
  /\ \E edited \in ArrayEdits(engines[FALSE].rules) :
       /\ engines' = [ni \in BOOLEAN |-> [engines[ni] EXCEPT !.rules = edited]]
       /\ inserted' = edited
  /\ op' = "mutateConfig"
  /\ call' = NoCall
  /\ result' = NoResult
  /\ prev' = engines
  /\ arg' = NoArg
  /\ UNCHANGED <<frames, serVars>>

ConfigNext == Next \/ MutateConfig

SpecConfig == ConfigInit /\ [][ConfigNext]_vars

(***************************************************************************)
(* The serializer: the caller builds an argument value in the heap         *)
(* (node 1 is the value passed as args), then has it checked, which        *)
(* serializes it for the pattern rules.                                    *)
(***************************************************************************)
Keys == {"a", "self"}

Primitives == {Undefined, Num(1)}

\* what the caller can store in a property or an array element: a
\* primitive, an object or array it already holds, or (Len(h) + 1) a new one
ValuesOf(h) ==
  Primitives \cup {Ref(i) : i \in 1..Len(h)}
  \cup (IF Len(h) < MaxNodes THEN {Ref(Len(h) + 1)} ELSE {})

\* the heap in which v exists: a new object or array is allocated empty
Allocate(h, v, kind) ==
  IF v.t = "ref" /\ v.id > Len(h)
  THEN Append(h, IF kind = "object" THEN ObjNode(<<>>) ELSE ArrNode(<<>>))
  ELSE h

RECURSIVE SlotsFrom(_, _)
SlotsFrom(h, i) ==
  IF i > Len(h) THEN 0
  ELSE (IF h[i].kind = "object" THEN Len(h[i].props) ELSE Len(h[i].items))
       + SlotsFrom(h, i + 1)

Slots(h) == SlotsFrom(h, 1)

HasKey(node, k) == \E i \in 1..Len(node.props) : node.props[i][1] = k

\* rules of the engine that checks the built value
SerRules ==
  << PolicyRule(Str("shell"), RegExp("1,\"a\"", FALSE), DENY, Num(5)),
     PolicyRule(Str("shell"), RegExp("[Circular]", FALSE), ASK_USER, Undefined),
     PolicyRule(Str("shell"), Undefined, ALLOW, Num(-1)) >>

BuiltCall(h) == FunctionCall(Str("shell"), Ref(1), h)

SerInit ==
  /\ engines = EnginesOf([rules |-> SerRules])
  /\ op = "init"
  /\ call = NoCall
  /\ result = NoResult
  /\ prev = engines
  /\ arg = NoArg
  /\ inserted = SerRules
  /\ frames = NoFrames
  /\ \E n \in {ObjNode(<<>>), ArrNode(<<>>)} : heap = <<n>>
  /\ out = ""
  /\ thrown = "none"
  /\ phase = "build"

\* o[k] = v for a key o does not have yet: the key goes last
SetProp ==
  /\ phase = "build"
  /\ Slots(heap) < MaxSlots
  /\ \E id \in 1..Len(heap), k \in Keys, v \in ValuesOf(heap), kind \in {"object", "array"} :
       /\ heap[id].kind = "object"
       /\ ~HasKey(heap[id], k)
       /\ kind = "array" => (v.t = "ref" /\ v.id > Len(heap))
       /\ heap' = [Allocate(heap, v, kind) EXCEPT
                     ![id] = ObjNode(Append(heap[id].props, <<k, v>>))]
  /\ UNCHANGED <<engineVars, out, thrown, phase>>

\* a.push(v)
Push ==
  /\ phase = "build"
  /\ Slots(heap) < MaxSlots
  /\ \E id \in 1..Len(heap), v \in ValuesOf(heap), kind \in {"object", "array"} :
       /\ heap[id].kind = "array"
       /\ kind = "array" => (v.t = "ref" /\ v.id > Len(heap))
       /\ heap' = [Allocate(heap, v, kind) EXCEPT
                     ![id] = ArrNode(Append(heap[id].items, v))]
  /\ UNCHANGED <<engineVars, out, thrown, phase>>

\* check({name: 'shell', args: <node 1>}); out is the argsString of ruleMatches
CheckBuilt ==
  /\ phase = "build"
  /\ LET c == BuiltCall(heap)
         r == [ni \in BOOLEAN |-> check(engines[ni], c)]
     IN /\ call' = c
        /\ result' = [ni \in BOOLEAN |-> r[ni].decision]
        /\ engines' = [ni \in BOOLEAN |-> [engines[ni] EXCEPT !.rules = r[ni].rules]]
        /\ out' = stableStringify(c.heap, c.args)
        /\ thrown' = stableStringifyOutcome(c.heap, c.args, FALSE).error
  /\ op' = "check"
  /\ prev' = engines
  /\ phase' = "done"
  /\ UNCHANGED <<arg, inserted, frames, heap>>

SerNext == SetProp \/ Push \/ CheckBuilt

SpecSer == SerInit /\ [][SerNext]_vars

(***************************************************************************)
(* The serializer on values with function members and toJSON hooks: the    *)
(* caller builds the value, then it is serialized by the variant of        *)
(* stableStringify that calls the hooks.                                   *)
(***************************************************************************)
HookKeys == {"a", "toJSON"}

\* what the caller can store under a key: a value, a plain function, or a
\* function that returns a value or throws when called
MemberValues(h) ==
  ValuesOf(h) \cup {Func, HookThrows} \cup {Hook(r) : r \in ValuesOf(h)}

\* the object or array a member value brings with it
Target(v) == IF "returns" \in DOMAIN v THEN v.returns ELSE v

\* o[k] = v, v possibly a function
SetMember ==
  /\ phase = "build"
  /\ Slots(heap) < MaxSlots
  /\ \E id \in 1..Len(heap), k \in HookKeys, v \in MemberValues(heap),
        kind \in {"object", "array"} :
       /\ heap[id].kind = "object"
       /\ ~HasKey(heap[id], k)
       /\ kind = "array" => (Target(v).t = "ref" /\ Target(v).id > Len(heap))
       /\ heap' = [Allocate(heap, Target(v), kind) EXCEPT
                     ![id] = ObjNode(Append(heap[id].props, <<k, v>>))]
  /\ UNCHANGED <<engineVars, out, thrown, phase>>

\* stableStringify(<node 1>) with toJSON hooks
Serialize ==
  /\ phase = "build"
  /\ LET o == stableStringifyOutcome(heap, Ref(1), TRUE)
     IN /\ out' = o.str
        /\ thrown' = o.error
  /\ phase' = "serialized"
  /\ UNCHANGED <<engineVars, heap>>

HookNext == SetMember \/ Push \/ Serialize

SpecToJSON == SerInit /\ [][HookNext]_vars

(***************************************************************************)
(* The serializer of policy-engine.ts on given values: a primitive,        *)
(* undefined, null or a function at the top, or an array or object (node   *)
(* 1) whose members are such values or a nested array or object (node 2).  *)
(***************************************************************************)
ValueKeys == {"a", "b"}

Members == {Undefined, Func, Null, Num(1), Ref(2)}

InnerNodes ==
  { ArrNode(<<Undefined>>),
    ObjNode(<< <<"x", Func>>, <<"y", Num(1)>> >>) }

\* the property lists over ValueKeys: each key at most once, in any order
PropLists ==
  {ps \in UNION {[1..n -> ValueKeys \X Members] : n \in 0..Cardinality(ValueKeys)} :
     \A i, j \in 1..Len(ps) : i # j => ps[i][1] # ps[j][1]}

ArrayLists == UNION {[1..n -> Members] : n \in 0..MaxSlots}

TopValues ==
  {[args |-> v, heap |-> NoHeap] : v \in {Undefined, Null, Func, Num(1), Str("a"), Bool(TRUE)}}
  \cup {[args |-> Ref(1), heap |-> <<ArrNode(items), inner>>] :
          items \in ArrayLists, inner \in InnerNodes}
  \cup {[args |-> Ref(1), heap |-> <<ObjNode(ps), inner>>] :
          ps \in PropLists, inner \in InnerNodes}

ValueInit ==
  /\ engines = EnginesOf(EmptyConfig)
  /\ op = "init"
  /\ \E top \in TopValues :
       /\ call = FunctionCall(Str("shell"), top.args, top.heap)
       /\ heap = top.heap
  /\ result = NoResult
  /\ prev = engines
  /\ arg = NoArg
  /\ inserted = <<>>
  /\ frames = NoFrames
  /\ out = ""
  /\ thrown = "none"
  /\ phase = "build"

\* stableStringify(toolCall.args)
StringifyArgs ==
  /\ phase = "build"
  /\ out' = stableStringify(call.heap, call.args)
  /\ thrown' = stableStringifyOutcome(call.heap, call.args, FALSE).error
  /\ phase' = "stringified"
  /\ UNCHANGED <<engineVars, heap>>

ValueNext == StringifyArgs

SpecValue == ValueInit /\ [][ValueNext]_vars

(***************************************************************************)
(* The engine methods statement by statement, called by several flows.     *)
(* check, addRule and removeRulesForTool are synchronous methods without   *)
(* await or yield: a method called runs on the one JavaScript thread to    *)
(* its return before any other flow runs.  A frame holds the method a flow *)
(* is in, its argument and its loop index.  Both engines take each step.   *)
(***************************************************************************)
FlowRules ==
  { PolicyRule(Str("shell"), Undefined, ALLOW, Undefined),
    PolicyRule(Str("shell"), RegExp("rm", FALSE), DENY, Num(5)),
    PolicyRule(Undefined, RegExp("rm", TRUE), ASK_USER, Undefined),
    PolicyRule(Str("shell"), Undefined, DENY, Num(-1)) }

FlowCalls ==
  { FunctionCall(Str("shell"), CommandArgs("rm").args, CommandArgs("rm").heap),
    FunctionCall(Str("edit"), Undefined, NoHeap) }

FlowToolNames == {Str("shell"), Str("edit")}

FlowInit ==
  /\ \E k \in 0..MaxConfigRules : \E rs \in [1..k -> FlowRules] :
       /\ arg = [rules |-> rs]
       /\ engines = EnginesOf(arg)
       /\ inserted = rs
  /\ op = "init"
  /\ call = NoCall
  /\ result = NoResult
  /\ prev = engines
  /\ frames = NoFrames
  /\ SerIdle

\* mutant of CanStart: a flow enters a method while another flow is inside one
CanStartAsync(f) == frames[f].pc = "idle"

\* flow f can call a method: it is in none, and no other flow is inside one
\* (the methods do not suspend, so nothing else runs until they return)
CanStart(f) == \A g \in Flows : frames[g].pc = "idle"

SetRules(rs) == [ni \in BOOLEAN |-> [engines[ni] EXCEPT !.rules = rs]]

\* check(toolCall) is called: the loop starts at the first rule
BeginCheck(f) ==
  /\ CanStart(f)
  /\ \E c \in FlowCalls :
       /\ frames' = [frames EXCEPT ![f] = [pc |-> "check", input |-> c, i |-> 1]]
       /\ call' = c
  /\ op' = "begin"
  /\ prev' = engines
  /\ result' = NoResult
  /\ arg' = NoArg
  /\ UNCHANGED <<engines, inserted, serVars>>

\* one turn of the loop of check, or the return of the default decision
StepCheck(f) ==
  /\ frames[f].pc = "check"
  /\ LET i == frames[f].i
         c == frames[f].input
         rs == engines[FALSE].rules
     IN IF i > Len(rs)
        THEN /\ result' = [ni \in BOOLEAN |->
                             applyNonInteractiveMode(engines[ni], engines[ni].defaultDecision)]
             /\ frames' = [frames EXCEPT ![f] = NoFrame]
             /\ op' = "check"
             /\ call' = c
             /\ UNCHANGED engines
        ELSE LET m == ruleMatches(rs[i], c)
             IN /\ engines' = SetRules([rs EXCEPT ![i] = m.rule])
                /\ IF m.matches
                   THEN /\ result' = [ni \in BOOLEAN |->
                                        applyNonInteractiveMode(engines[ni], rs[i].decision)]
                        /\ frames' = [frames EXCEPT ![f] = NoFrame]
                        /\ op' = "check"
                        /\ call' = c
                   ELSE /\ frames' = [frames EXCEPT ![f].i = i + 1]
                        /\ UNCHANGED <<result, op, call>>
  /\ UNCHANGED <<prev, arg, inserted, serVars>>

\* addRule(rule) is called: this.rules.push(rule)
BeginAddRule(f) ==
  /\ CanStart(f)
  /\ Len(engines[FALSE].rules) < MaxRules
  /\ \E r \in FlowRules :
       /\ frames' = [frames EXCEPT ![f] = [pc |-> "addRule", input |-> r, i |-> 0]]
       /\ engines' = SetRules(Append(engines[FALSE].rules, r))
       /\ arg' = r
       /\ inserted' = Append(inserted, r)
  /\ op' = "begin"
  /\ prev' = engines
  /\ call' = NoCall
  /\ result' = NoResult
  /\ UNCHANGED serVars

\* this.rules.sort(...), and addRule returns
StepAddRule(f) ==
  /\ frames[f].pc = "addRule"
  /\ engines' = SetRules(SortRules(engines[FALSE].rules))
  /\ frames' = [frames EXCEPT ![f] = NoFrame]
  /\ op' = "addRule"
  /\ arg' = frames[f].input
  /\ UNCHANGED <<call, result, prev, inserted, serVars>>

\* removeRulesForTool(toolName) is called: the loop starts at the last rule
BeginRemove(f) ==
  /\ CanStart(f)
  /\ \E t \in FlowToolNames :
       /\ frames' = [frames EXCEPT ![f] =
                       [pc |-> "removeRulesForTool", input |-> t,
                        i |-> Len(engines[FALSE].rules)]]
       /\ arg' = t
  /\ op' = "begin"
  /\ prev' = engines
  /\ call' = NoCall
  /\ result' = NoResult
  /\ UNCHANGED <<engines, inserted, serVars>>

\* one turn of the loop of removeRulesForTool (a splice where the rule is
\* one for the tool), or its return
StepRemove(f) ==
  /\ frames[f].pc = "removeRulesForTool"
  /\ LET i == frames[f].i
         t == frames[f].input
         rs == engines[FALSE].rules
     IN IF i < 1
        THEN /\ frames' = [frames EXCEPT ![f] = NoFrame]
             /\ op' = "removeRulesForTool"
             /\ arg' = t
             /\ inserted' = SelectSeq(inserted, LAMBDA r : r.toolName # t)
             /\ UNCHANGED engines
        ELSE /\ frames' = [frames EXCEPT ![f].i = i - 1]
             /\ IF i <= Len(rs) /\ rs[i].toolName = t
                THEN engines' = SetRules(SubSeq(rs, 1, i - 1) \o SubSeq(rs, i + 1, Len(rs)))
                ELSE UNCHANGED engines
             /\ UNCHANGED <<op, arg, inserted>>
  /\ UNCHANGED <<call, result, prev, serVars>>

FlowNext ==
  \E f \in Flows :
    \/ BeginCheck(f)
    \/ StepCheck(f)
    \/ BeginAddRule(f)
    \/ StepAddRule(f)
    \/ BeginRemove(f)
    \/ StepRemove(f)

SpecFlows == FlowInit /\ [][FlowNext]_vars

(***************************************************************************)
(* Properties of check.  After a check, prev holds the engines the check   *)
(* ran on, call its argument and result what it returned.                  *)
(***************************************************************************)
\* the rules of rs (positions) that match the call
Matching(rs, c) == {i \in 1..Len(rs) : ruleMatches(rs[i], c).matches}

HasPattern(rule) == rule.argsPattern.t # "undefined"
HasToolName(rule) == rule.toolName.t # "undefined"
HasArgs(c) == c.args.t # "undefined"

\* C1: check returns the (adjusted) decision of the first rule of the list
\* that matches the call, the (adjusted) default decision when no rule
\* matches, and the rules behind the first matching one have no influence:
\* the list cut after that rule gives the same result.
C1_FirstMatchWins ==
  op = "check" =>
    \A ni \in BOOLEAN :
      LET e == prev[ni]
          M == Matching(e.rules, call)
      IN /\ M = {} => result[ni] = applyNonInteractiveMode(e, e.defaultDecision)
         /\ M # {} =>
              \E i \in M :
                /\ \A j \in M : i <= j
                /\ result[ni] = applyNonInteractiveMode(e, e.rules[i].decision)
                /\ check([e EXCEPT !.rules = SubSeq(e.rules, 1, i)], call).decision
                     = result[ni]

\* a check that two rules with different decisions matched, the first of which decided
C1_Witness ==
  /\ op = "check"
  /\ \E i, j \in Matching(prev[FALSE].rules, call) :
       /\ i < j
       /\ \A k \in Matching(prev[FALSE].rules, call) : i <= k
       /\ prev[FALSE].rules[i].decision # prev[FALSE].rules[j].decision
       /\ result[FALSE] = prev[FALSE].rules[i].decision

\* C2: the decision check returns is that of a matching rule whose priority
\* is maximal among the rules that match the call, however the list was built.
C2_HighestPriorityWins ==
  op = "check" =>
    \A ni \in BOOLEAN :
      LET e == prev[ni]
          M == Matching(e.rules, call)
      IN M # {} =>
           \E i \in M :
             /\ \A j \in M : PriorityOf(e.rules[j]) <= PriorityOf(e.rules[i])
             /\ result[ni] = applyNonInteractiveMode(e, e.rules[i].decision)

\* a check decided by a rule that overrides a matching rule of lower priority
\* carrying another decision
C2_Witness ==
  /\ op = "check"
  /\ \E i, j \in Matching(prev[FALSE].rules, call) :
       /\ PriorityOf(prev[FALSE].rules[j]) < PriorityOf(prev[FALSE].rules[i])
       /\ \A k \in Matching(prev[FALSE].rules, call) :
            PriorityOf(prev[FALSE].rules[k]) <= PriorityOf(prev[FALSE].rules[i])
       /\ prev[FALSE].rules[i].decision = DENY
       /\ prev[FALSE].rules[j].decision = ALLOW
       /\ result[FALSE] = DENY

\* C3: the non-interactive engine never returns ASK_USER, from a rule or
\* from the default.
C3_NonInteractiveNeverAsks ==
  op = "check" => (engines[TRUE].nonInteractive /\ result[TRUE] \in {ALLOW, DENY})

\* a check the interactive engine answers ASK_USER from a matched rule, and
\* the non-interactive engine DENY
C3_Witness ==
  /\ op = "check"
  /\ Matching(prev[TRUE].rules, call) # {}
  /\ result[FALSE] = ASK_USER
  /\ result[TRUE] = DENY

\* C4: on the same rules, default and operations, the non-interactive engine
\* returns ALLOW exactly when the interactive one does, and DENY exactly
\* when the interactive one returns DENY or ASK_USER.
C4_OnlyAskBecomesDeny ==
  /\ ~engines[FALSE].nonInteractive /\ engines[TRUE].nonInteractive
  /\ engines[TRUE].rules = engines[FALSE].rules
  /\ engines[TRUE].defaultDecision = engines[FALSE].defaultDecision
  /\ op = "check" =>
       /\ result[TRUE] = ALLOW <=> result[FALSE] = ALLOW
       /\ result[TRUE] = DENY <=> result[FALSE] \in {DENY, ASK_USER}

\* a check both engines answer ALLOW, with ASK_USER as the default decision
C4_Witness ==
  /\ op = "check"
  /\ result[FALSE] = ALLOW
  /\ result[TRUE] = ALLOW
  /\ engines[TRUE].defaultDecision = ASK_USER

\* the rules of rs that carry no argsPattern
RECURSIVE WithoutPatternRules(_)
WithoutPatternRules(rs) ==
  IF Len(rs) = 0 THEN <<>>
  ELSE (IF HasPattern(rs[1]) THEN <<>> ELSE <<rs[1]>>) \o WithoutPatternRules(Tail(rs))

\* C5: a rule with an argsPattern never matches a call without args; the
\* result is that of the rules without pattern, or the default.
C5_PatternNeedsArgs ==
  (op = "check" /\ ~HasArgs(call)) =>
    \A ni \in BOOLEAN :
      LET e == prev[ni]
      IN /\ \A i \in 1..Len(e.rules) :
              HasPattern(e.rules[i]) => i \notin Matching(e.rules, call)
         /\ engines[ni].rules = e.rules
         /\ result[ni] =
              check([e EXCEPT !.rules = WithoutPatternRules(e.rules)], call).decision

\* a check of a call without args on a list whose first rule has a pattern
\* and the call's tool name, and another decision than the one returned
C5_Witness ==
  /\ op = "check"
  /\ ~HasArgs(call)
  /\ Len(prev[FALSE].rules) >= 2
  /\ HasPattern(prev[FALSE].rules[1])
  /\ prev[FALSE].rules[1].toolName = call.name
  /\ result[FALSE] # prev[FALSE].rules[1].decision
  /\ Matching(prev[FALSE].rules, call) # {}

\* C6 (as claimed): a rule with an argsPattern whose name constraint is
\* satisfied matches a call with args exactly when the pattern occurs in
\* the canonical serialization of the args.
C6_PatternMatchesSerialization ==
  op = "check" =>
    \A i \in 1..Len(prev[FALSE].rules) :
      LET rule == prev[FALSE].rules[i]
      IN (HasPattern(rule) /\ HasArgs(call)
          /\ (~HasToolName(rule) \/ rule.toolName = call.name)) =>
           (ruleMatches(rule, call).matches
              <=> PatternOccurs(rule.argsPattern, stableStringify(call.heap, call.args)))

\* C7 (as claimed): a rule with a toolName, the empty string included,
\* matches only calls of exactly that name; a rule without toolName accepts
\* every name.
C7_ExactToolName ==
  op = "check" =>
    \A i \in 1..Len(prev[FALSE].rules) :
      LET rule == prev[FALSE].rules[i]
      IN /\ (HasToolName(rule) /\ ruleMatches(rule, call).matches)
              => rule.toolName = call.name
         /\ (~HasToolName(rule) /\ ~HasPattern(rule)) => ruleMatches(rule, call).matches

(***************************************************************************)
(* Properties of the serializer.  After CheckBuilt, heap holds the value   *)
(* that was passed as args (node 1) and out its serialization.             *)
(***************************************************************************)
\* number of places at which needle occurs in s, from position from on
RECURSIVE OccurrencesFrom(_, _, _)
OccurrencesFrom(s, needle, from) ==
  LET p == IndexOf(s, needle, from)
  IN IF p = 0 THEN 0 ELSE 1 + OccurrencesFrom(s, needle, p + 1)

Occurrences(s, needle) == OccurrencesFrom(s, needle, 1)

\* the values held by a node, in order
SlotValues(node) ==
  IF node.kind = "object"
  THEN [i \in 1..Len(node.props) |-> node.props[i][2]]
  ELSE node.items

\* the same properties in every insertion order
PropOrders(node) ==
  IF node.kind = "object"
  THEN {ObjNode([i \in 1..Len(node.props) |-> node.props[f[i]]]) :
          f \in Permutations(1..Len(node.props))}
  ELSE {node}

\* the heaps that differ from h only in the insertion order of object keys
RECURSIVE KeyOrdersFrom(_, _)
KeyOrdersFrom(h, i) ==
  IF i > Len(h) THEN {<<>>}
  ELSE {<<n>> \o rest : n \in PropOrders(h[i]), rest \in KeyOrdersFrom(h, i + 1)}

KeyOrders(h) == KeyOrdersFrom(h, 1)

\* C8: values that differ only in key insertion order, at any depth, have
\* the same serialization, so every rule matches both or neither and check
\* returns the same decision for both.
C8_KeyOrderIrrelevant ==
  phase = "done" =>
    \A h2 \in KeyOrders(heap) :
      /\ stableStringify(h2, Ref(1)) = out
      /\ \A i \in 1..Len(prev[FALSE].rules) :
           ruleMatches(prev[FALSE].rules[i], BuiltCall(h2)).matches
             = ruleMatches(prev[FALSE].rules[i], call).matches
      /\ \A ni \in BOOLEAN : check(prev[ni], BuiltCall(h2)).decision = result[ni]

\* a serialized mapping whose two keys were inserted in descending order,
\* around a nested mapping
C8_Witness ==
  /\ phase = "done"
  /\ Len(heap) = 2
  /\ heap[1] = ObjNode(<< <<"self", Num(1)>>, <<"a", Ref(2)>> >>)
  /\ heap[2].kind = "object"
  /\ Len(heap[2].props) = 1
  /\ out = "{\"a\":{\"self\":1},\"self\":1}"

\* number of edges met on the paths from node id that lead back to a node
\* of the path (ancestors: the nodes of the path above id)
RECURSIVE BackEdges(_, _, _)
RECURSIVE BackEdgesOf(_, _, _)
BackEdges(h, id, ancestors) == BackEdgesOf(h, SlotValues(h[id]), ancestors \cup {id})

BackEdgesOf(h, values, path) ==
  IF Len(values) = 0 THEN 0
  ELSE (IF values[1].t # "ref" THEN 0
        ELSE IF values[1].id \in path THEN 1
        ELSE BackEdges(h, values[1].id, path))
       + BackEdgesOf(h, Tail(values), path)

\* C9: a composite value that is one of its own ancestors on the current
\* path is emitted as "[Circular]" at that edge, and not entered: the
\* output holds one marker per such edge; a self-reference, a mutual cycle
\* and a cycle through an array serialize as stated.
C9_CircularMarker ==
  phase = "done" =>
    /\ Occurrences(out, "\"[Circular]\"") = BackEdges(heap, 1, {})
    /\ heap \in {<<ObjNode(<< <<"a", Num(1)>>, <<"self", Ref(1)>> >>)>>,
                 <<ObjNode(<< <<"self", Ref(1)>>, <<"a", Num(1)>> >>)>>}
         => out = "{\"a\":1,\"self\":\"[Circular]\"}"
    /\ heap = <<ObjNode(<< <<"a", Ref(2)>> >>), ObjNode(<< <<"self", Ref(1)>> >>)>>
         => out = "{\"a\":{\"self\":\"[Circular]\"}}"
    /\ heap = <<ObjNode(<< <<"a", Ref(2)>> >>), ArrNode(<<Num(1), Ref(1)>>)>>
         => out = "{\"a\":[1,\"[Circular]\"]}"
    /\ heap = <<ArrNode(<<Ref(1)>>)>> => out = "[\"[Circular]\"]"

\* obj = {a: 1}; obj.self = obj, serialized
C9_Witness ==
  /\ phase = "done"
  /\ heap = <<ObjNode(<< <<"a", Num(1)>>, <<"self", Ref(1)>> >>)>>
  /\ out = "{\"a\":1,\"self\":\"[Circular]\"}"

\* the nodes reachable from the nodes of S in one or more steps
Successors(h, S) ==
  {j \in 1..Len(h) : \E i \in S : \E k \in 1..Len(SlotValues(h[i])) :
                       SlotValues(h[i])[k] = Ref(j)}

RECURSIVE ReachFrom(_, _)
ReachFrom(h, S) ==
  LET T == S \cup Successors(h, S)
  IN IF T = S THEN S ELSE ReachFrom(h, T)

Acyclic(h) == \A i \in 1..Len(h) : i \notin ReachFrom(h, Successors(h, {i}))

\* C10: a composite value that occurs several times without being its own
\* ancestor is serialized in full at every occurrence: a value without
\* cycles serializes without any marker, and an object or array held twice
\* by the top-level value appears twice in the output.
C10_SharedSerializedInFull ==
  phase = "done" =>
    /\ Acyclic(heap) => Occurrences(out, "[Circular]") = 0
    /\ \A n \in 2..Len(heap) :
         (\E i, j \in 1..Len(SlotValues(heap[1])) :
            i # j /\ SlotValues(heap[1])[i] = Ref(n) /\ SlotValues(heap[1])[j] = Ref(n))
           => Occurrences(out, stringify(heap, Ref(n), {1})) >= 2

\* one object under two sibling keys, serialized twice
C10_Witness ==
  /\ phase = "done"
  /\ heap = <<ObjNode(<< <<"a", Ref(2)>>, <<"self", Ref(2)>> >>),
              ObjNode(<< <<"a", Num(1)>> >>)>>
  /\ out = "{\"a\":{\"a\":1},\"self\":{\"a\":1}}"

(***************************************************************************)
(* Totality of the serializer.                                             *)
(***************************************************************************)
\* whether a toJSON hook is called while the built value is serialized
RECURSIVE HookCalled(_, _, _)
HookCalled(h, currentObj, ancestors) ==
  /\ currentObj.t = "ref"
  /\ currentObj.id \notin ancestors
  /\ LET node == h[currentObj.id]
         newAncestors == ancestors \cup {currentObj.id}
     IN \/ node.kind = "object" /\ GetProp(node, "toJSON").t = "function"
        \/ \E k \in 1..Len(SlotValues(node)) :
             HookCalled(h, SlotValues(node)[k], newAncestors)

Priorities == {PriorityOf(r) : r \in RulePool}

\* the rules of rs that have priority p, in the order of rs
ByPriority(rs, p) == SelectSeq(rs, LAMBDA r : PriorityOf(r) = p)

\* a rule as it was handed to the engine: its pattern object is the one the
\* engine holds, whatever its lastIndex is by now
Pristine(rule) ==
  IF rule.argsPattern.t = "regexp"
  THEN [rule EXCEPT !.argsPattern.lastIndex = 0]
  ELSE rule

PristineAll(rs) == [i \in 1..Len(rs) |-> Pristine(rs[i])]

\* C12: in every state reached by construction, addRule, removeRulesForTool
\* (and check, getRules), the list getRules() returns is ordered by
\* non-increasing priority.
C12_SortedByPriority ==
  \A ni \in BOOLEAN :
    LET rs == getRules(engines[ni])
    IN \A i \in 1..(Len(rs) - 1) : PriorityOf(rs[i]) >= PriorityOf(rs[i + 1])

\* a rule has been added that outranks the one held: it is held first
C12_Witness ==
  /\ op = "addRule"
  /\ Len(prev[FALSE].rules) = 1
  /\ PriorityOf(arg) > PriorityOf(prev[FALSE].rules[1])
  /\ PriorityOf(inserted[1]) < PriorityOf(inserted[2])
  /\ getRules(engines[FALSE]) = <<arg, prev[FALSE].rules[1]>>

\* C13: the rules of equal priority are held in the order they were handed
\* to the engine (config.rules, then the addRule calls); of the rules of the
\* deciding priority that match a call, the one handed over first decides;
\* rules that all have one priority are held in the order given.
C13_EqualPriorityInInsertionOrder ==
  \A ni \in BOOLEAN :
    LET rs == getRules(engines[ni])
    IN /\ \A p \in Priorities :
            PristineAll(ByPriority(rs, p)) = ByPriority(inserted, p)
       /\ (\E p \in Priorities : \A i \in 1..Len(inserted) : PriorityOf(inserted[i]) = p)
            => PristineAll(rs) = inserted
       /\ (op = "check" /\ Matching(prev[ni].rules, call) # {}) =>
            LET before == prev[ni].rules
                M == Matching(before, call)
                w == CHOOSE i \in M : \A j \in M : i <= j
                p == PriorityOf(before[w])
                held == ByPriority(before, p)
                given == ByPriority(inserted, p)
                K == {k \in 1..Len(held) : ruleMatches(held[k], call).matches}
                first == CHOOSE k \in K : \A j \in K : k <= j
            IN /\ K # {}
               /\ Len(given) = Len(held)
               /\ result[ni] = applyNonInteractiveMode(prev[ni], given[first].decision)

\* two rules of equal priority and different decisions both match the call
\* checked; the one handed over first has decided
C13_Witness ==
  /\ op = "check"
  /\ Len(inserted) = 2
  /\ inserted[1] # inserted[2]
  /\ PriorityOf(inserted[1]) = PriorityOf(inserted[2])
  /\ inserted[1].decision # inserted[2].decision
  /\ Matching(prev[FALSE].rules, call) = {1, 2}
  /\ result[FALSE] = inserted[1].decision
  /\ PristineAll(getRules(engines[FALSE])) = inserted

C15_RemoveAbsentIsNoOp ==
  op = "removeRulesForTool" =>
    \A ni \in BOOLEAN :
      /\ (\A i \in 1..Len(prev[ni].rules) : prev[ni].rules[i].toolName # arg)
           => engines[ni] = prev[ni]
      /\ removeRulesForTool(engines[ni], arg) = engines[ni]

\* rules were held, one of them for every tool, none for the tool named:
\* they are all still held
C15_Witness ==
  /\ op = "removeRulesForTool"
  /\ Len(prev[FALSE].rules) = 2
  /\ \E i \in 1..2 : ~HasToolName(prev[FALSE].rules[i])
  /\ \A i \in 1..2 : prev[FALSE].rules[i].toolName # arg
  /\ getRules(engines[FALSE]) = prev[FALSE].rules

\* the list without its k-th element
WithoutAt(rs, k) == SubSeq(rs, 1, k - 1) \o SubSeq(rs, k + 1, Len(rs))

C17_AddedRuleTakesEffect ==
  op = "addRule" =>
    \A ni \in BOOLEAN : \A c \in Calls :
      ( /\ ruleMatches(arg, c).matches
        /\ \A i \in Matching(prev[ni].rules, c) :
             PriorityOf(prev[ni].rules[i]) < PriorityOf(arg) )
      => check(engines[ni], c).decision = applyNonInteractiveMode(engines[ni], arg.decision)

\* a rule has been added that changes the decision for a call which a rule
\* of lower priority held before matches
C17_Witness ==
  /\ op = "addRule"
  /\ \E c \in Calls :
       /\ ruleMatches(arg, c).matches
       /\ Matching(prev[FALSE].rules, c) # {}
       /\ \A i \in Matching(prev[FALSE].rules, c) :
            PriorityOf(prev[FALSE].rules[i]) < PriorityOf(arg)
       /\ check(prev[FALSE], c).decision # arg.decision
       /\ check(engines[FALSE], c).decision = arg.decision

\* C18: check changes nothing in the engine: the rule list, with every
\* field of every rule, the default decision and the nonInteractive flag
\* are after check what they were before it.
C18_CheckChangesNothing ==
  op = "check" => engines = prev

\* C19: a check repeated with the same call, no addRule or
\* removeRulesForTool in between, returns the decision it returned before.
C19_RepeatedCheckSameDecision ==
  op = "check" =>
    \A ni \in BOOLEAN : check(engines[ni], call).decision = result[ni]

\* C20: whatever the caller does to the sequence getRules() returned, the
\* engine is as if the caller had done nothing: getRules() returns what it
\* returned before, every check returns what it would have returned, and
\* the list is still ordered by non-increasing priority.
C20_ViewCannotChangeEngine ==
  op = "mutateView" =>
    \A ni \in BOOLEAN :
      /\ getRules(engines[ni]) = getRules(prev[ni])
      /\ \A c \in Calls : check(engines[ni], c).decision = check(prev[ni], c).decision
      /\ \A i \in 1..(Len(getRules(engines[ni])) - 1) :
           PriorityOf(getRules(engines[ni])[i]) >= PriorityOf(getRules(engines[ni])[i + 1])

\* C21: the engine owns its rule list: what the caller does to the array it
\* passed as config.rules after construction (append, remove, reorder,
\* assign) changes neither what getRules() returns nor what check returns.
C21_EngineOwnsRules ==
  op = "mutateConfig" =>
    \A ni \in BOOLEAN :
      /\ getRules(engines[ni]) = getRules(prev[ni])
      /\ \A c \in Calls : check(engines[ni], c).decision = check(prev[ni], c).decision

(***************************************************************************)
(* toJSON hooks.  The source holds two serializers: stableStringify of     *)
(* policy-engine.ts (toJSON = FALSE below) and the variant with the toJSON *)
(* branch (toJSON = TRUE).                                                 *)
(***************************************************************************)
Serializers == BOOLEAN

\* the toJSON member of the value serialized
RootHook(h) == IF h[1].kind = "object" THEN GetProp(h[1], "toJSON") ELSE Undefined

\* C22: when the value serialized has a toJSON function that returns, the
\* output is the serialization of what the function returned (serialized
\* as a member of the value, which is its ancestor), not of the value's own
\* fields.
C22_ToJSONResultSerialized ==
  phase = "serialized" =>
    LET hook == RootHook(heap)
    IN (hook.t = "function" /\ ~CallHook(hook).threw) =>
         \A toJSON \in Serializers :
           stableStringifyOutcome(heap, Ref(1), toJSON) =
             stringifyOutcome(heap, CallHook(hook).value, {1}, 2, toJSON)

\* the heap without the toJSON members that throw when called
StripThrowing(h) ==
  [id \in 1..Len(h) |->
     IF h[id].kind = "object"
     THEN ObjNode(SelectSeq(h[id].props,
                            LAMBDA kv : ~(kv[1] = "toJSON" /\ kv[2] = HookThrows)))
     ELSE h[id]]

\* C23: a toJSON hook that throws makes the serializer throw nothing: the
\* value is serialized as the plain object it is without its toJSON member.
C23_ThrowingHookFallsBack ==
  (phase = "serialized" /\ StripThrowing(heap) # heap) =>
    /\ thrown = "none"
    /\ \A toJSON \in Serializers :
         /\ stableStringifyOutcome(heap, Ref(1), toJSON).error = "none"
         /\ stableStringifyOutcome(heap, Ref(1), toJSON) =
              stableStringifyOutcome(StripThrowing(heap), Ref(1), toJSON)
    /\ out = stableStringifyOutcome(StripThrowing(heap), Ref(1), TRUE).str

\* {a: 1, toJSON() { throw ... }} has been serialized as {"a":1}
C23_Witness ==
  /\ phase = "serialized"
  /\ RootHook(heap) = HookThrows
  /\ GetProp(heap[1], "a") = Num(1)
  /\ thrown = "none"
  /\ out = "{\"a\":1}"

(***************************************************************************)
(* undefined, null and functions in the serialization.                     *)
(***************************************************************************)
NonData(v) == v.t \in {"undefined", "function"}

\* the heap without the properties whose value is undefined or a function
StripNonData(h) ==
  [id \in 1..Len(h) |->
     IF h[id].kind = "object"
     THEN ObjNode(SelectSeq(h[id].props, LAMBDA kv : ~NonData(kv[2])))
     ELSE h[id]]

\* the number of elements of the array literal s: one more than its commas
\* outside nested brackets, none for "[]"
RECURSIVE TopCommas(_, _, _)
TopCommas(s, i, depth) ==
  IF i > Len(s) THEN 0
  ELSE LET c == CharAt(s, i)
       IN IF c \in {"[", "{"} THEN TopCommas(s, i + 1, depth + 1)
          ELSE IF c \in {"]", "}"} THEN TopCommas(s, i + 1, depth - 1)
          ELSE (IF c = "," /\ depth = 1 THEN 1 ELSE 0) + TopCommas(s, i + 1, depth)

ArraySlots(s) == IF s = "[]" THEN 0 ELSE 1 + TopCommas(s, 1, 0)

\* C24: a key whose value is undefined or a function does not appear in the
\* output; an array element that is undefined or a function is null at its
\* position, the output has as many elements as the array; undefined, null
\* or a function at the top gives null.
C24_UndefinedAndFunctionMembers ==
  phase = "stringified" =>
    LET v == call.args
        h == call.heap
    IN /\ thrown = "none"
       /\ v.t \in {"undefined", "null", "function"} => out = "null"
       /\ (v.t = "ref" /\ h[1].kind = "array") =>
            /\ ArraySlots(out) = Len(h[1].items)
            /\ out = "[" \o Join([i \in 1..Len(h[1].items) |->
                                    IF NonData(h[1].items[i]) THEN "null"
                                    ELSE stableStringify(h, h[1].items[i])], ",") \o "]"
       /\ (v.t = "ref" /\ h[1].kind = "object") =>
            /\ \A i \in 1..Len(h[1].props) :
                 LET k == h[1].props[i][1]
                 IN NonData(h[1].props[i][2]) <=> IndexOf(out, JSONQuote(k) \o ":", 1) = 0
            /\ out = stableStringify(StripNonData(h), v)
       /\ v.t = "ref" => IndexOf(out, "\"x\":", 1) = 0

\* [undefined, {x: function, y: 1}, function] has been serialized
C24_Witness ==
  /\ phase = "stringified"
  /\ call.args = Ref(1)
  /\ call.heap[1] = ArrNode(<<Undefined, Ref(2), Func>>)
  /\ call.heap[2] = ObjNode(<< <<"x", Func>>, <<"y", Num(1)>> >>)
  /\ out = "[null,{\"y\":1},null]"

(***************************************************************************)
(* The default decision.                                                   *)
(***************************************************************************)
\* the decision the config asks for when no rule matches
ConfiguredDefault(config) ==
  IF "defaultDecision" \in DOMAIN config THEN config.defaultDecision ELSE ASK_USER

\* C25: an engine built from a config (the empty one included) holds the
\* config's defaultDecision, ASK_USER if it has none, and holds it for good;
\* a check of a call no rule matches returns it, DENY in place of ASK_USER
\* when nonInteractive.
C25_DefaultDecision ==
  \A ni \in BOOLEAN :
    /\ op = "init" =>
         /\ engines[ni].defaultDecision = ConfiguredDefault(arg)
         /\ \A c \in Calls :
              Matching(getRules(engines[ni]), c) = {} =>
                check(engines[ni], c).decision =
                  (IF ni /\ ConfiguredDefault(arg) = ASK_USER THEN DENY
                   ELSE ConfiguredDefault(arg))
    /\ engines[ni].defaultDecision = prev[ni].defaultDecision
    /\ engines[ni].nonInteractive = ni
    /\ (op = "check" /\ Matching(prev[ni].rules, call) = {}) =>
         result[ni] = (IF ni /\ prev[ni].defaultDecision = ASK_USER THEN DENY
                       ELSE prev[ni].defaultDecision)

\* a call that no rule matches has been checked by engines holding rules
\* and the default ASK_USER: the answers are ASK_USER and, nonInteractive, DENY
C25_Witness ==
  /\ op = "check"
  /\ Len(prev[FALSE].rules) > 0
  /\ Matching(prev[FALSE].rules, call) = {}
  /\ prev[FALSE].defaultDecision = ASK_USER
  /\ result[FALSE] = ASK_USER
  /\ result[TRUE] = DENY

(***************************************************************************)
(* Rules without priority.                                                 *)
(***************************************************************************)
Unset(rule) == rule.priority.t = "undefined"

\* the rule with its priority written out, 0 where it has none
WithZero(rule) == IF Unset(rule) THEN [rule EXCEPT !.priority = Num(0)] ELSE rule

WithZeroAll(rs) == [i \in 1..Len(rs) |-> WithZero(rs[i])]

\* the rules of rs that have no priority or priority 0, in the order of rs
ZeroLike(rs) == SelectSeq(rs, LAMBDA r : WithZero(r).priority.n = 0)

\* C26: a rule without priority is held behind every rule of positive
\* priority, in front of every rule of negative priority, and among the
\* rules of priority 0 in the order they were handed over; the list is the
\* one an engine holds to which the same rules were handed with priority 0
\* written out, so every check is decided alike.
C26_UnsetPriorityIsZero ==
  \A ni \in BOOLEAN :
    LET rs == getRules(engines[ni])
    IN /\ \A i, j \in 1..Len(rs) :
            (Unset(rs[i]) /\ ~Unset(rs[j])) =>
              /\ rs[j].priority.n > 0 => j < i
              /\ rs[j].priority.n < 0 => i < j
       /\ PristineAll(ZeroLike(rs)) = ZeroLike(inserted)
       /\ WithZeroAll(PristineAll(rs)) = SortRules(WithZeroAll(inserted))

\* a rule without priority has been added to an engine holding a rule of
\* negative priority: it is held in front of that rule
C26_Witness ==
  /\ op = "addRule"
  /\ Unset(arg)
  /\ Len(prev[FALSE].rules) = 1
  /\ ~Unset(prev[FALSE].rules[1])
  /\ prev[FALSE].rules[1].priority.n < 0
  /\ getRules(engines[FALSE]) = <<arg, prev[FALSE].rules[1]>>

(***************************************************************************)
(* An added rule and the rules already held.                               *)
(***************************************************************************)
\* the priority a rule is ordered by
Rank(rule) == WithZero(rule).priority.n

\* the rules of rs that match call c and rank at least as high as rule r
MatchingAtLeast(rs, c, r) == {i \in Matching(rs, c) : Rank(rs[i]) >= Rank(r)}

\* C28: addRule(r) leaves the decision of check as it was for every call
\* that a held rule of priority at least r's matched before the addition;
\* r is placed behind every held rule of priority at least its own.
C28_AddRuleYieldsToEarlierMatch ==
  \A ni \in BOOLEAN :
    op = "addRule" =>
      LET before == prev[ni].rules
          rs == getRules(engines[ni])
      IN /\ \A c \in Calls :
              MatchingAtLeast(before, c, arg) # {} =>
                check(engines[ni], c).decision = check(prev[ni], c).decision
         /\ \E k \in 1..Len(rs) :
              /\ rs[k] = arg
              /\ WithoutAt(rs, k) = before
              /\ \A j \in 1..Len(before) : Rank(before[j]) >= Rank(arg) => j < k

\* a rule was added that matches a call and decides it otherwise than a held
\* rule of the same priority matching it: the held rule still decides
C28_Witness ==
  /\ op = "addRule"
  /\ \E c \in Calls :
       /\ ruleMatches(arg, c).matches
       /\ \E i \in Matching(prev[FALSE].rules, c) :
            /\ Rank(prev[FALSE].rules[i]) = Rank(arg)
            /\ prev[FALSE].rules[i].decision # arg.decision
       /\ check(prev[FALSE], c).decision # arg.decision
       /\ check(engines[FALSE], c).decision = check(prev[FALSE], c).decision

(***************************************************************************)
(* Rule changes for one tool and the decisions for other tools.            *)
(***************************************************************************)
\* C29: adding a rule that has toolName t, and removing the rules for t,
\* leave the decision of check as it was for every call whose name is not t.
C29_OtherToolsUnaffected ==
  \A ni \in BOOLEAN : \A c \in Calls :
    /\ (op = "addRule" /\ HasToolName(arg) /\ c.name # arg.toolName) =>
         check(engines[ni], c).decision = check(prev[ni], c).decision
    /\ (op = "removeRulesForTool" /\ c.name # arg) =>
         check(engines[ni], c).decision = check(prev[ni], c).decision

(***************************************************************************)
(* addRule followed by removeRulesForTool.                                 *)
(***************************************************************************)
\* the rules of rs that have toolName t
ForTool(rs, t) == {i \in 1..Len(rs) : rs[i].toolName = t}

Running == {f \in Flows : frames[f].pc # "idle"}

\* rs is in descending order of priority
Descending(rs) == \A i, j \in 1..Len(rs) : i < j => Rank(rs[i]) >= Rank(rs[j])

====
